---- MODULE Spec2Model ----
\* Model of the reusable signal patterns of the repository
\* (src/unnamed/part_000: createHistorySignal, createDebouncedSignal,
\* createPersistentStore, createResource, createSignalSet,
\* createSignalWithMiddleware, computedWithPrevious) and of two components
\* (markdown-viewer.component.ts: the temperature mirror of
\* SignalAdvancedComponent and the loads of MarkdownViewerComponent).
\* Each pattern has its own specification over the shared variables; the
\* variables of the patterns a specification does not exercise stay at their
\* constructed values.
EXTENDS Integers, Sequences, FiniteSets

\* ------------------------------------------------------------------ bounds
\* Values written to the signals (T is a small set of primitives).
NumVals == 4
\* Largest maxHistory argument explored (0..MaxCap).
MaxCap == 3
\* Number of setValue/undo/redo calls explored on one history signal.
MaxOps == 5
\* Values written to the input of a debounced signal (1 is the initial one).
NumInputs == 3
\* The delayMs argument of the debounced signal, in clock ticks.
Delay == 2
\* Last instant of the clock.
MaxTime == 5
\* Number of setTimeout calls explored (timer ids are 1..MaxTimers).
MaxTimers == 4
\* Number of createPersistentStore calls on one key (the page and its reloads).
MaxInstances == 2
\* Number of refresh() calls explored on one resource.
MaxRefresh == 3
\* Number of distinct items offered to a signal set; two items share each key.
NumItems == 4
\* Longest initial array passed to createSignalSet.
MaxInitial == 2
\* Longest middleware array passed to createSignalWithMiddleware.
MaxStages == 2
\* Temperatures typed into the two inputs: -MaxTemp..MaxTemp degrees Celsius,
\* and as many degrees Fahrenheit on each side of 32.
MaxTemp == 3
\* Where the count of effect runs since the last write stops counting.
RunCap == 6
\* Number of http.get calls explored on one markdown viewer.
MaxGets == 4

Values == 1..NumVals
\* JavaScript's undefined (the result of indexing an array out of range).
Undefined == 0

VARIABLES
    history,        \* createHistorySignal: signal<T[]>
    currentIndex,   \* createHistorySignal: signal(0), zero-based
    maxHistory,     \* createHistorySignal: the maxHistory argument
    full,           \* ghost: the log as it would be with no eviction
    ops,            \* ghost: the calls made so far, with their outcome
    input,          \* createDebouncedSignal: signal(initialValue), writable
    output,         \* createDebouncedSignal: signal(initialValue), debounced
    timeoutId,      \* createDebouncedSignal: let timeoutId (0 is null)
    timers,         \* host: the pending setTimeout callbacks
    nextTimerId,    \* host: the id the next setTimeout returns
    effectDirty,    \* host: the effect is scheduled to run
    cleanupSet,     \* host: the effect has a registered onCleanup closure
    destroyed,      \* host: the effect was destroyed with its owner
    now,            \* host: the clock
    lastWrite,      \* ghost: instant of the last input.set call (-1: none)
    lastChange,     \* ghost: instant of the last input.set that changed input
    again,          \* ghost: the last input.set came less than Delay after one
    burstW,         \* ghost: output changes since the burst of writes began
    burstC,         \* ghost: output changes since the burst of changes began
    burstLen,       \* ghost: changing writes in the burst of changes (<= 2)
    fires,          \* ghost: number of timer callbacks run
    cancelled,      \* ghost: the callbacks cancelled by the owner's disposal
    lastSet,        \* ghost: kind of the last input.set call not yet relayed
    storage,        \* localStorage: the item stored under key (or Absent)
    initialValue,   \* createPersistentStore: the initialValue argument
    state,          \* createPersistentStore: signal<T>(initial)
    storeStatus,    \* createPersistentStore: "none", "live" or "crashed"
    persistDirty,   \* host: the auto-save effect is scheduled to run
    instances,      \* ghost: number of createPersistentStore calls made
    seen,           \* ghost: the item the last construction read
    hydrated,       \* ghost: state() right after the last construction
    lastCall,       \* ghost: the last call made on the store
    errorAt,        \* ghost: where the last serialization error was raised
    data,           \* createResource: signal<T | null>(null)
    loading,        \* createResource: signal(false)
    error,          \* createResource: signal<Error | null>(null)
    refreshTrigger, \* createResource: signal(0)
    resDirty,       \* host: the loading effect is scheduled to run
    inflight,       \* host: the fetchFn calls whose promise is not settled
    loads,          \* ghost: number of fetchFn calls made
    producer,       \* ghost: what fetchFn or its promise did last
    items,          \* createSignalSet: signal<T[]>(initial)
    setCall,        \* ghost: the last call on the set and items() before it
    pairStart,      \* ghost: items() before the first of two toggles in a row
    innerSignal,    \* createSignalWithMiddleware: signal(initialValue)
    middleware,     \* createSignalWithMiddleware: the middleware array
    startValue,     \* createSignalWithMiddleware: the initialValue argument
    mwCall,         \* ghost: the last call on the wrapper and the value before
    console,        \* host: what the last write printed with console.log
    source,         \* computedWithPrevious: the source signal
    computeFn,      \* computedWithPrevious: the computeFn argument
    previousValue,  \* computedWithPrevious: let previousValue
    memo,           \* host: what the computed signal keeps of its last computation
    srcDirty,       \* host: the source changed since the last computation
    fCall,          \* ghost: the arguments of the last call of computeFn
    rd,             \* ghost: the last read of the computed signal
    srcChange,      \* ghost: the last change of the source
    celsius,        \* SignalAdvancedComponent: celsius = signal(0)
    fahrenheit,     \* SignalAdvancedComponent: fahrenheit = signal(32)
    updatingFromEffect,\* SignalAdvancedComponent: the re-entrancy flag
    c2fDirty,       \* host: celsiusToFahrenheitEffect is scheduled to run
    f2cDirty,       \* host: fahrenheitToCelsiusEffect is scheduled to run
    runs,           \* ghost: effect runs since the last write to either input
    typed,          \* ghost: the last write to either input
    currentFile,    \* MarkdownViewerComponent: currentFile signal
    isLoading,      \* MarkdownViewerComponent: isLoading = signal(true)
    loadError,      \* MarkdownViewerComponent: error signal, as the file it names
    htmlContent,    \* MarkdownViewerComponent: htmlContent, as the file rendered
    tableOfContents,\* MarkdownViewerComponent: tableOfContents, as its file
    pendingGets,    \* host: the GET requests that have not completed
    gets,           \* ghost: number of GET requests issued
    overlapped      \* ghost: a GET was issued while another was pending

histVars == <<history, currentIndex, maxHistory, full, ops>>
debVars == <<input, output, timeoutId, timers, nextTimerId, effectDirty,
             cleanupSet, destroyed, now, lastWrite, lastChange, again,
             burstW, burstC, burstLen, fires, cancelled, lastSet>>
storeVars == <<storage, initialValue, state, storeStatus, persistDirty,
               instances, seen, hydrated, lastCall, errorAt>>
resVars == <<data, loading, error, refreshTrigger, resDirty, inflight, loads,
            producer>>
setVars == <<items, setCall, pairStart>>
mwVars == <<innerSignal, middleware, startValue, mwCall, console>>
prevVars == <<source, computeFn, previousValue, memo, srcDirty, fCall, rd,
              srcChange>>
mirrorVars == <<celsius, fahrenheit, updatingFromEffect, c2fDirty, f2cDirty,
                runs, typed>>
viewerVars == <<currentFile, isLoading, loadError, htmlContent,
                tableOfContents, pendingGets, gets, overlapped>>
vars == <<histVars, debVars, storeVars, resVars, setVars, mwVars, prevVars,
          mirrorVars, viewerVars>>

\* What the operations of one pattern leave alone: the other patterns.
notHist == <<debVars, storeVars, resVars, setVars, mwVars, prevVars,
             mirrorVars, viewerVars>>
notDeb == <<histVars, storeVars, resVars, setVars, mwVars, prevVars,
            mirrorVars, viewerVars>>
notStore == <<histVars, debVars, resVars, setVars, mwVars, prevVars,
              mirrorVars, viewerVars>>
notRes == <<histVars, debVars, storeVars, setVars, mwVars, prevVars,
            mirrorVars, viewerVars>>
notSet == <<histVars, debVars, storeVars, resVars, mwVars, prevVars,
            mirrorVars, viewerVars>>
notMw == <<histVars, debVars, storeVars, resVars, setVars, prevVars,
           mirrorVars, viewerVars>>
notPrev == <<histVars, debVars, storeVars, resVars, setVars, mwVars,
             mirrorVars, viewerVars>>
notMirror == <<histVars, debVars, storeVars, resVars, setVars, mwVars,
               prevVars, viewerVars>>
notViewer == <<histVars, debVars, storeVars, resVars, setVars, mwVars,
               prevVars, mirrorVars>>

\* ------------------------------------------------------- array helpers
\* Array.prototype.slice(0, end) on a sequence (end may be out of range).
Slice0(arr, end) ==
    LET e0 == IF end < 0 THEN Len(arr) + end ELSE end
        e1 == IF e0 < 0 THEN 0 ELSE IF e0 > Len(arr) THEN Len(arr) ELSE e0
    IN  SubSeq(arr, 1, e1)

\* Array.prototype.pop applied for its effect on the array (mutant of Shift).
Shift_dropsNewest(arr) ==
    IF Len(arr) = 0 THEN arr ELSE SubSeq(arr, 1, Len(arr) - 1)

\* Array.prototype.shift applied for its effect on the array.
Shift(arr) ==
    IF Len(arr) = 0 THEN arr ELSE Tail(arr)

\* arr[i] with a zero-based index; out of range reads give undefined.
At(arr, i) ==
    IF i + 1 \in DOMAIN arr THEN arr[i + 1] ELSE Undefined

\* ------------------------------------------------- createHistorySignal
\* computed(() => history()[currentIndex()])
value == At(history, currentIndex)

canUndo_noGuard == currentIndex >= 0

\* computed(() => currentIndex() > 0)
canUndo == currentIndex > 0

canRedo_noGuard == currentIndex < Len(history)

\* computed(() => currentIndex() < history().length - 1)
canRedo == currentIndex < Len(history) - 1

\* The record of one call: what was called and what it left behind.
OpRec(name, arg, idx, hist) ==
    [op |-> name, arg |-> arg, index |-> idx,
     value |-> At(hist, idx), len |-> Len(hist)]

\* createDebouncedSignal('' , delayMs): both signals hold the initial value
\* and the effect is created, scheduled for its first run.
DebConstructed ==
    /\ input = 1
    /\ output = 1
    /\ timeoutId = 0
    /\ timers = {}
    /\ nextTimerId = 1
    /\ effectDirty = TRUE
    /\ cleanupSet = FALSE
    /\ destroyed = FALSE
    /\ now = 0
    /\ lastWrite = -1
    /\ lastChange = -1
    /\ again = FALSE
    /\ burstW = 0
    /\ burstC = 0
    /\ burstLen = 0
    /\ fires = 0
    /\ cancelled = {}
    /\ lastSet = "none"

\* localStorage.getItem(key) of a key that holds nothing (null).
Absent == "<absent>"

\* No createPersistentStore call was made yet.
StoreUnused ==
    /\ storage = Absent
    /\ initialValue = "v1"
    /\ state = "none"
    /\ storeStatus = "none"
    /\ persistDirty = FALSE
    /\ instances = 0
    /\ seen = Absent
    /\ hydrated = "none"
    /\ lastCall = [op |-> "none", arg |-> "none", prevOp |-> "none",
                   prevArg |-> "none", prevFlushed |-> FALSE]
    /\ errorAt = "none"

\* The null of data and error. The n-th fetchFn call resolves with the value
\* n or rejects with the error n (n >= 1).
Null == 0

\* createResource(fetchFn): the three signals hold their initial values and
\* the effect is created, scheduled for its first run.
ResConstructed ==
    /\ data = Null
    /\ loading = FALSE
    /\ error = Null
    /\ refreshTrigger = 0
    /\ resDirty = TRUE
    /\ inflight = {}
    /\ loads = 0
    /\ producer = [call |-> 0, did |-> "none"]

\* No pair of toggles is in progress.
NoPair == [on |-> FALSE, before |-> <<>>]

\* createSignalSet(): the default initial array, no call made yet.
SetConstructed ==
    /\ items = <<>>
    /\ setCall = [op |-> "none", item |-> 0, before |-> <<>>, writes |-> 0]
    /\ pairStart = NoPair

\* createSignalWithMiddleware(0, []): no call made yet.
MwConstructed ==
    /\ innerSignal = 0
    /\ middleware = <<>>
    /\ startValue = 0
    /\ mwCall = [op |-> "none", arg |-> 0, prev |-> 0]
    /\ console = <<>>

\* computedWithPrevious(computeFn, source): nothing read or written yet.
PrevConstructed ==
    /\ source = 1
    /\ computeFn = "delta"
    /\ previousValue = Undefined
    /\ memo = [kind |-> "unset", v |-> 0]
    /\ srcDirty = TRUE
    /\ fCall = [made |-> FALSE, current |-> 0, previous |-> 0]
    /\ rd = [seq |-> 0, called |-> FALSE, outcome |-> "none", v |-> 0]
    /\ srcChange = [from |-> 0, to |-> 0]

\* The temperature fields of SignalAdvancedComponent as constructed: both
\* effects are scheduled for their first run.
MirrorConstructed ==
    /\ celsius = 0
    /\ fahrenheit = 32
    /\ updatingFromEffect = FALSE
    /\ c2fDirty = TRUE
    /\ f2cDirty = TRUE
    /\ runs = 0
    /\ typed = [field |-> "none", v |-> 0]

\* The documents offered by the select of the markdown viewer.
Files == {"SIGNALS-DEEP-DIVE.md", "README.md"}

\* No document: the empty content, and the null error.
NoFile == ""

\* MarkdownViewerComponent as constructed, before ngOnInit.
ViewerConstructed ==
    /\ currentFile = "SIGNALS-DEEP-DIVE.md"
    /\ isLoading = TRUE
    /\ loadError = NoFile
    /\ htmlContent = NoFile
    /\ tableOfContents = NoFile
    /\ pendingGets = {}
    /\ gets = 0
    /\ overlapped = FALSE

\* createHistorySignal(initialValue, maxHistory): the values are opaque to the
\* log, so the initial one is fixed and the written ones range over Values.
HistInit ==
    /\ DebConstructed
    /\ StoreUnused
    /\ ResConstructed
    /\ ViewerConstructed
    /\ MirrorConstructed
    /\ PrevConstructed
    /\ SetConstructed
    /\ MwConstructed
    /\ maxHistory \in 0..MaxCap
    /\ history = <<1>>
    /\ full = <<1>>
    /\ currentIndex = 0
    /\ ops = <<>>

\* The index after setValue: untouched when an entry was evicted.
NextIndex_alwaysForward(newLen) == currentIndex + 1

NextIndex(newLen) ==
    IF newLen > maxHistory THEN currentIndex ELSE currentIndex + 1

\* The slice of setValue: drop the redo entries.
Truncate_keepsRedo(arr) == arr

Truncate(arr) == Slice0(arr, currentIndex + 1)

\* The size limit of setValue.
Limit_evictsEarly(arr) == IF Len(arr) >= maxHistory THEN Shift(arr) ELSE arr

Limit(arr) == IF Len(arr) > maxHistory THEN Shift(arr) ELSE arr

setValue(newValue) ==
    LET pushed == Append(Truncate(history), newValue)
        newHistory == Limit(pushed)
        newIndex == NextIndex(Len(pushed))
        dropped == Len(history) - Len(Truncate(history))
    IN  /\ Len(ops) < MaxOps
        /\ currentIndex' = newIndex
        /\ history' = newHistory
        /\ full' = Append(SubSeq(full, 1, Len(full) - dropped), newValue)
        /\ ops' = Append(ops, OpRec("setValue", newValue, newIndex, newHistory))
        /\ UNCHANGED <<maxHistory, notHist>>

undo_clearsRedo ==
    LET newIndex == IF canUndo THEN currentIndex - 1 ELSE currentIndex
    IN  /\ Len(ops) < MaxOps
        /\ currentIndex' = newIndex
        /\ history' = Slice0(history, newIndex + 1)
        /\ ops' = Append(ops, OpRec("undo", Undefined, newIndex, history))
        /\ UNCHANGED <<maxHistory, full, notHist>>

undo ==
    LET newIndex == IF canUndo THEN currentIndex - 1 ELSE currentIndex
    IN  /\ Len(ops) < MaxOps
        /\ currentIndex' = newIndex
        /\ ops' = Append(ops, OpRec("undo", Undefined, newIndex, history))
        /\ UNCHANGED <<history, maxHistory, full, notHist>>

redo ==
    LET newIndex == IF canRedo THEN currentIndex + 1 ELSE currentIndex
    IN  /\ Len(ops) < MaxOps
        /\ currentIndex' = newIndex
        /\ ops' = Append(ops, OpRec("redo", Undefined, newIndex, history))
        /\ UNCHANGED <<history, maxHistory, full, notHist>>

SetValueStep == \E newValue \in Values : setValue(newValue)

HistNext == SetValueStep \/ undo \/ redo

HistSpec == HistInit /\ [][HistNext]_vars

\* ------------------------------------------------ createDebouncedSignal
Inputs == 1..NumInputs

\* A history signal as constructed, left alone by the debounced signal.
HistConstructed ==
    /\ history = <<1>>
    /\ full = <<1>>
    /\ currentIndex = 0
    /\ maxHistory = MaxCap
    /\ ops = <<>>

DebInit ==
    /\ HistConstructed
    /\ DebConstructed
    /\ StoreUnused
    /\ ResConstructed
    /\ ViewerConstructed
    /\ MirrorConstructed
    /\ PrevConstructed
    /\ SetConstructed
    /\ MwConstructed

\* clearTimeout(id): a pending callback with that id is dropped; clearing a
\* callback that already ran, or was already cleared, does nothing.
clearTimeout_noop(pending, id) == pending

clearTimeout(pending, id) == {t \in pending : t.id # id}

\* if (timeoutId) clearTimeout(timeoutId)
ClearPending(pending) ==
    IF timeoutId # 0 THEN clearTimeout(pending, timeoutId) ELSE pending

\* The instant at which setTimeout(fn, delayMs) may first run fn.
Due_immediate == now

Due == now + Delay

\* timeoutId = setTimeout(() => output.set(value), delayMs) with value the
\* input read by this run of the effect.
setTimeout_skipsRelayed(pending) ==
    IF input = output THEN pending
    ELSE pending \cup {[id |-> nextTimerId, value |-> input, due |-> Due]}

setTimeout(pending) ==
    pending \cup {[id |-> nextTimerId, value |-> input, due |-> Due]}

\* The cleanup of the previous run, when there is one.
RunCleanup(pending) ==
    IF cleanupSet THEN ClearPending(pending) ELSE pending

\* input.set(v): the signal changes, and notifies the effect, only when v
\* differs from the value it holds.
Write(v) ==
    LET changed == v # input
        newBurstW == lastWrite = -1 \/ now - lastWrite >= Delay
        newBurstC == lastChange = -1 \/ now - lastChange >= Delay
    IN  /\ input' = v
        /\ effectDirty' = (effectDirty \/ (changed /\ ~destroyed))
        /\ lastWrite' = now
        /\ lastChange' = IF changed THEN now ELSE lastChange
        /\ again' = ~newBurstW
        /\ burstW' = IF newBurstW THEN 0 ELSE burstW
        /\ burstC' = IF changed /\ newBurstC THEN 0 ELSE burstC
        /\ burstLen' = IF ~changed THEN burstLen
                       ELSE IF newBurstC THEN 1
                       ELSE IF burstLen < 2 THEN burstLen + 1 ELSE burstLen
        /\ lastSet' = IF v = output /\ fires > 0
                      THEN (IF changed THEN "changedToOutput" ELSE "sameAsOutput")
                      ELSE (IF changed THEN "changed" ELSE "same")
        /\ UNCHANGED <<output, timeoutId, timers, nextTimerId, cleanupSet,
                       destroyed, now, fires, cancelled, notDeb>>

\* One run of the effect: the cleanup of the previous run, then the body.
EffectRun ==
    /\ effectDirty
    /\ ~destroyed
    /\ nextTimerId <= MaxTimers
    /\ LET afterCleanup == RunCleanup(timers)
           afterClear == ClearPending(afterCleanup)
       IN  /\ timers' = setTimeout(afterClear)
           /\ timeoutId' = nextTimerId
           /\ nextTimerId' = nextTimerId + 1
    /\ cleanupSet' = TRUE
    /\ effectDirty' = FALSE
    /\ UNCHANGED <<input, output, destroyed, now, lastWrite, lastChange, again,
                   burstW, burstC, burstLen, fires, cancelled, lastSet,
                   notDeb>>

\* A pending callback runs: output.set(value). Callbacks are tasks of the
\* event loop, so none runs while an effect run is still scheduled.
TimerFire_dropsValue ==
    /\ ~effectDirty
    /\ \E t \in timers :
          /\ now >= t.due
          /\ timers' = timers \ {t}
    /\ fires' = fires + 1
    /\ lastSet' = IF lastSet = "changedToOutput" THEN "relayedToOutput" ELSE "none"
    /\ UNCHANGED <<input, output, timeoutId, nextTimerId, effectDirty,
                   cleanupSet, destroyed, now, lastWrite, lastChange, again,
                   burstW, burstC, burstLen, cancelled, notDeb>>

TimerFire ==
    /\ ~effectDirty
    /\ \E t \in timers :
          /\ now >= t.due
          /\ timers' = timers \ {t}
          /\ output' = t.value
          /\ burstW' = IF t.value # output /\ burstW < 2 THEN burstW + 1 ELSE burstW
          /\ burstC' = IF t.value # output /\ burstC < 2 THEN burstC + 1 ELSE burstC
    /\ fires' = fires + 1
    /\ lastSet' = IF lastSet = "changedToOutput" THEN "relayedToOutput" ELSE "none"
    /\ UNCHANGED <<input, timeoutId, nextTimerId, effectDirty, cleanupSet,
                   destroyed, now, lastWrite, lastChange, again, burstLen, cancelled,
                   notDeb>>

\* The owner is destroyed without the registered cleanup being run.
Destroy_noCleanup ==
    /\ ~destroyed
    /\ destroyed' = TRUE
    /\ effectDirty' = FALSE
    /\ cleanupSet' = FALSE
    /\ UNCHANGED <<input, output, timeoutId, timers, nextTimerId, now,
                   lastWrite, lastChange, again, burstW, burstC, burstLen, fires,
                   cancelled, lastSet, notDeb>>

\* The owner is destroyed: the effect is destroyed with it, its registered
\* cleanup runs and it never runs again.
Destroy ==
    /\ ~destroyed
    /\ destroyed' = TRUE
    /\ timers' = RunCleanup(timers)
    /\ cancelled' = timers \ RunCleanup(timers)
    /\ effectDirty' = FALSE
    /\ cleanupSet' = FALSE
    /\ UNCHANGED <<input, output, timeoutId, nextTimerId, now, lastWrite,
                   lastChange, again, burstW, burstC, burstLen, fires, lastSet,
                   notDeb>>

\* Time passes.
Tick ==
    /\ now < MaxTime
    /\ now' = now + 1
    /\ UNCHANGED <<input, output, timeoutId, timers, nextTimerId, effectDirty,
                   cleanupSet, destroyed, lastWrite, lastChange, again, burstW,
                   burstC, burstLen, fires, cancelled, lastSet, notDeb>>

WriteStep == \E v \in Inputs : Write(v)

DebNext == WriteStep \/ EffectRun \/ TimerFire \/ Destroy \/ Tick

DebSpec == DebInit /\ [][DebNext]_vars

\* The host runs a scheduled effect, runs a callback that is due, and time
\* passes.
DebFairness ==
    /\ WF_vars(EffectRun)
    /\ WF_vars(TimerFire)
    /\ WF_vars(Tick)

DebLiveSpec == DebSpec /\ DebFairness

\* ------------------------------------------------ createPersistentStore
\* The values of T explored: two plain JSON values, NaN, null, undefined and
\* an object that refers to itself.
StoreValues == {"v1", "v2", "vNaN", "vNull", "vUndefined", "vCyclic"}

\* The items localStorage may hold under key before the first construction:
\* the encodings of the plain values and of null, the text "undefined", the
\* empty string and a truncated object.
StoredItems == {"1", "2", "null", "undefined", "", "{bad"}

\* The outcome of a call that throws.
Throws == "<throws>"

\* The undefined that JSON.stringify returns for undefined.
NoOutput == "<undefined>"

\* JSON.stringify(v)
JSONstringify(v) ==
    CASE v = "v1" -> "1"
      [] v = "v2" -> "2"
      [] v = "vNaN" -> "null"
      [] v = "vNull" -> "null"
      [] v = "vUndefined" -> NoOutput
      [] v = "vCyclic" -> Throws

\* JSON.parse(text)
JSONparse(text) ==
    CASE text = "1" -> "v1"
      [] text = "2" -> "v2"
      [] text = "null" -> "vNull"
      [] OTHER -> Throws

\* The truthiness test of `stored ? ... : ...`: null and '' are falsy.
Truthy(stored) == stored # Absent /\ stored # ""

\* const initial = stored ? JSON.parse(stored) : initialValue
Initial_ignoresStored(stored) == initialValue

Initial(stored) ==
    IF Truthy(stored) THEN JSONparse(stored) ELSE initialValue

\* localStorage.setItem(key, text): the item becomes String(text).
setItem_otherKey(text) == storage

setItem(text) == IF text = NoOutput THEN "undefined" ELSE text

\* A signal notifies its effects only when set to a different value.
Notifies_never(old, new) == FALSE

Notifies(old, new) == old # new

\* The updater functions explored: one that swaps the plain values and one
\* that returns its argument.
Updaters == {"swap", "keep"}

Apply(updater, current) ==
    IF updater = "keep" THEN current
    ELSE IF current = "v1" THEN "v2" ELSE "v1"

\* The value reset() restores.
ResetValue_hydrated == hydrated

ResetValue == initialValue

Call(name, arg) ==
    [op |-> name, arg |-> arg, prevOp |-> "none", prevArg |-> "none",
     prevFlushed |-> FALSE]

StoreInit ==
    /\ HistConstructed
    /\ DebConstructed
    /\ ResConstructed
    /\ ViewerConstructed
    /\ MirrorConstructed
    /\ PrevConstructed
    /\ SetConstructed
    /\ MwConstructed
    /\ storage \in StoredItems \cup {Absent}
    /\ initialValue \in {"v1", "v2"}
    /\ state = "none"
    /\ storeStatus = "none"
    /\ persistDirty = FALSE
    /\ instances = 0
    /\ seen = Absent
    /\ hydrated = "none"
    /\ lastCall = Call("none", "none")
    /\ errorAt = "none"

\* createPersistentStore(key, initialValue): the first call, or the call made
\* after a page reload (the earlier instance and its scheduled effect run
\* are gone). A JSON.parse that throws makes the call throw.
Construct ==
    /\ instances < MaxInstances
    /\ instances' = instances + 1
    /\ seen' = storage
    /\ LET initial == Initial(storage)
       IN  IF initial = Throws
           THEN /\ storeStatus' = "crashed"
                /\ state' = "none"
                /\ hydrated' = "none"
                /\ persistDirty' = FALSE
           ELSE /\ storeStatus' = "live"
                /\ state' = initial
                /\ hydrated' = initial
                /\ persistDirty' = TRUE
    /\ lastCall' = [op |-> "construct", arg |-> "none",
                    prevOp |-> lastCall.op, prevArg |-> lastCall.arg,
                    prevFlushed |-> (storeStatus = "live" /\ ~persistDirty)]
    /\ errorAt' = "none"
    /\ UNCHANGED <<storage, initialValue, notStore>>

\* The signal write shared by set, update and reset.
WriteState_tearsDown(name, v) ==
    /\ storeStatus = "live"
    /\ state' = v
    /\ persistDirty' = FALSE
    /\ lastCall' = Call(name, v)
    /\ errorAt' = "none"
    /\ UNCHANGED <<storage, initialValue, storeStatus, instances, seen,
                   hydrated, notStore>>

WriteState(name, v) ==
    /\ storeStatus = "live"
    /\ state' = v
    /\ persistDirty' = (persistDirty \/ Notifies(state, v))
    /\ lastCall' = Call(name, v)
    /\ errorAt' = "none"
    /\ UNCHANGED <<storage, initialValue, storeStatus, instances, seen,
                   hydrated, notStore>>

\* set: (value) => state.set(value)
Set(v) == WriteState("set", v)

\* update: (updater) => state.update(updater)
Update(updater) == WriteState("update", Apply(updater, state))

\* reset: () => state.set(initialValue)
Reset == WriteState("reset", ResetValue)

\* A failed run of the auto-save effect that stores String(state()).
PersistRun_storesAnyway ==
    /\ storeStatus = "live"
    /\ persistDirty
    /\ persistDirty' = FALSE
    /\ LET text == JSONstringify(state)
       IN  IF text = Throws
           THEN storage' = "[object Object]" /\ errorAt' = "effect"
           ELSE storage' = setItem(text) /\ errorAt' = errorAt
    /\ UNCHANGED <<initialValue, state, storeStatus, instances, seen,
                   hydrated, lastCall, notStore>>

\* One run of the auto-save effect:
\* localStorage.setItem(key, JSON.stringify(state())). A JSON.stringify that
\* throws ends the run before setItem; the error is raised in the effect.
PersistRun ==
    /\ storeStatus = "live"
    /\ persistDirty
    /\ persistDirty' = FALSE
    /\ LET text == JSONstringify(state)
       IN  IF text = Throws
           THEN storage' = storage /\ errorAt' = "effect"
           ELSE storage' = setItem(text) /\ errorAt' = errorAt
    /\ UNCHANGED <<initialValue, state, storeStatus, instances, seen,
                   hydrated, lastCall, notStore>>

SetStep == \E v \in StoreValues : Set(v)

UpdateStep == \E updater \in Updaters : Update(updater)

StoreNext == Construct \/ SetStep \/ UpdateStep \/ Reset \/ PersistRun

StoreSpec == StoreInit /\ [][StoreNext]_vars

\* The host runs the auto-save effect once it is scheduled.
StoreFairness == WF_vars(PersistRun)

StoreLiveSpec == StoreSpec /\ StoreFairness

\* -------------------------------------------------------- createResource
ResInit ==
    /\ HistConstructed
    /\ DebConstructed
    /\ StoreUnused
    /\ ResConstructed
    /\ ViewerConstructed
    /\ MirrorConstructed
    /\ PrevConstructed
    /\ SetConstructed
    /\ MwConstructed

\* refresh: () => refreshTrigger.update(v => v + 1)
Refresh ==
    /\ refreshTrigger < MaxRefresh
    /\ refreshTrigger' = refreshTrigger + 1
    /\ resDirty' = TRUE
    /\ UNCHANGED <<data, loading, error, inflight, loads, producer, notRes>>

\* error.set(null) at the start of a load.
ClearError_keeps == error

ClearError == Null

\* One run of the effect up to its await: loading.set(true), error.set(null)
\* and the call of fetchFn, which returns a pending promise.
LoadStart_rescheduled ==
    /\ resDirty
    /\ loads <= MaxRefresh + 1
    /\ loading' = TRUE
    /\ error' = ClearError
    /\ loads' = loads + 1
    /\ inflight' = inflight \cup {loads + 1}
    /\ producer' = [call |-> loads + 1, did |-> "returned"]
    /\ UNCHANGED <<data, refreshTrigger, resDirty, notRes>>

LoadStart ==
    /\ resDirty
    /\ resDirty' = FALSE
    /\ loading' = TRUE
    /\ error' = ClearError
    /\ loads' = loads + 1
    /\ inflight' = inflight \cup {loads + 1}
    /\ producer' = [call |-> loads + 1, did |-> "returned"]
    /\ UNCHANGED <<data, refreshTrigger, notRes>>

\* One run of the effect in which fetchFn itself throws: the catch and the
\* finally blocks run before the effect returns.
LoadThrows_uncaught ==
    /\ resDirty
    /\ resDirty' = FALSE
    /\ loads' = loads + 1
    /\ error' = ClearError
    /\ loading' = TRUE
    /\ producer' = [call |-> loads + 1, did |-> "threw"]
    /\ UNCHANGED <<data, refreshTrigger, inflight, notRes>>

LoadThrows ==
    /\ resDirty
    /\ resDirty' = FALSE
    /\ loads' = loads + 1
    /\ error' = loads + 1
    /\ loading' = FALSE
    /\ producer' = [call |-> loads + 1, did |-> "threw"]
    /\ UNCHANGED <<data, refreshTrigger, inflight, notRes>>

\* The promise of call n is fulfilled: data.set(result), then the finally
\* block, loading.set(false).
Resolve(n) ==
    /\ n \in inflight
    /\ inflight' = inflight \ {n}
    /\ data' = n
    /\ loading' = FALSE
    /\ producer' = [call |-> n, did |-> "fulfilled"]
    /\ UNCHANGED <<error, refreshTrigger, resDirty, loads, notRes>>

\* The promise of call n is rejected: error.set(e), then the finally block,
\* loading.set(false).
Reject_noFinally(n) ==
    /\ n \in inflight
    /\ inflight' = inflight \ {n}
    /\ error' = n
    /\ producer' = [call |-> n, did |-> "rejected"]
    /\ UNCHANGED <<data, loading, refreshTrigger, resDirty, loads, notRes>>

Reject(n) ==
    /\ n \in inflight
    /\ inflight' = inflight \ {n}
    /\ error' = n
    /\ loading' = FALSE
    /\ producer' = [call |-> n, did |-> "rejected"]
    /\ UNCHANGED <<data, refreshTrigger, resDirty, loads, notRes>>

ResolveStep == \E n \in inflight : Resolve(n)

RejectStep == \E n \in inflight : Reject(n)

ResNext == Refresh \/ LoadStart \/ LoadThrows \/ ResolveStep \/ RejectStep

ResSpec == ResInit /\ [][ResNext]_vars

\* The calls of fetchFn that can be made within the bound.
Calls == 1..(MaxRefresh + 1)

\* The host runs a scheduled effect, and every promise returned by fetchFn
\* settles.
ResFairness ==
    /\ WF_vars(LoadStart \/ LoadThrows)
    /\ \A n \in Calls : WF_vars(Resolve(n) \/ Reject(n))

ResLiveSpec == ResSpec /\ ResFairness

\* -------------------------------------------------------- createSignalSet
\* The items offered to the set.
Items == 1..NumItems

\* keyFn(item): items 1 and 2 have the same key, 3 and 4 the next one, ...
keyFn(item) == (item + 1) \div 2

\* Arrays of items of length at most n.
Arrays(n) == UNION {[1..k -> Items] : k \in 0..n}

\* createSignalSet(initial, keyFn): items holds the initial array as given.
SetInit ==
    /\ HistConstructed
    /\ DebConstructed
    /\ StoreUnused
    /\ ResConstructed
    /\ ViewerConstructed
    /\ MirrorConstructed
    /\ PrevConstructed
    /\ MwConstructed
    /\ items \in Arrays(MaxInitial)
    /\ setCall = [op |-> "none", item |-> 0, before |-> <<>>, writes |-> 0]
    /\ pairStart = NoPair

\* items().some(i => keyFn(i) === key)
has(arr, item) == \E k \in 1..Len(arr) : keyFn(arr[k]) = keyFn(item)

\* arr.filter(i => keyFn(i) !== key)
Filter_firstOnly(arr, item) ==
    LET hits == {k \in 1..Len(arr) : keyFn(arr[k]) = keyFn(item)}
        first == CHOOSE k \in hits : \A h \in hits : k <= h
    IN  IF hits = {} THEN arr
        ELSE SubSeq(arr, 1, first - 1) \o SubSeq(arr, first + 1, Len(arr))

Filter(arr, item) == SelectSeq(arr, LAMBDA i : keyFn(i) # keyFn(item))

\* [...arr, item] behind the membership test of add
Added_replaces(arr, item) ==
    IF has(arr, item)
    THEN [k \in 1..Len(arr) |->
              IF keyFn(arr[k]) = keyFn(item) THEN item ELSE arr[k]]
    ELSE Append(arr, item)

Added(arr, item) == IF has(arr, item) THEN arr ELSE Append(arr, item)

\* The result of toggle: remove(item) when has(item), add(item) otherwise.
Toggled_addFirst(arr, item) ==
    IF has(arr, item) THEN Filter(arr, item) ELSE <<item>> \o arr

Toggled(arr, item) ==
    IF has(arr, item) THEN Filter(arr, item) ELSE Added(arr, item)

\* Bookkeeping of a call that made n writes to the items signal.
SetCalled(name, item, n) ==
    /\ setCall' = [op |-> name, item |-> item, before |-> items, writes |-> n]
    /\ pairStart' = IF name = "toggle" /\ setCall.op = "toggle"
                        /\ setCall.item = item /\ pairStart = NoPair
                    THEN [on |-> TRUE, before |-> setCall.before]
                    ELSE NoPair

add(item) ==
    /\ items' = Added(items, item)
    /\ SetCalled("add", item, IF has(items, item) THEN 0 ELSE 1)
    /\ UNCHANGED notSet

remove(item) ==
    /\ items' = Filter(items, item)
    /\ SetCalled("remove", item, 1)
    /\ UNCHANGED notSet

\* toggle as two writes: the item is taken out, then put back or left out.
toggle_twoWrites(item) ==
    /\ items' = Toggled(items, item)
    /\ SetCalled("toggle", item, 2)
    /\ UNCHANGED notSet

toggle(item) ==
    /\ items' = Toggled(items, item)
    /\ SetCalled("toggle", item, 1)
    /\ UNCHANGED notSet

\* items.set([])
clear ==
    /\ items' = <<>>
    /\ SetCalled("clear", 0, 1)
    /\ UNCHANGED notSet

AddStep == \E item \in Items : add(item)

RemoveStep == \E item \in Items : remove(item)

ToggleStep == \E item \in Items : toggle(item)

SetNext == AddStep \/ RemoveStep \/ ToggleStep \/ clear

SetSpec == SetInit /\ [][SetNext]_vars

\* --------------------------------------------- createSignalWithMiddleware
\* The numbers written to the cell: those of demonstrateMiddleware (5, -1,
\* 10), their opposites and 0.
Numbers == {-10, -5, -1, 0, 1, 5, 10}

\* The middleware functions tried: loggingMiddleware, validationMiddleware
\* with the validator n => n >= 0, and a transformation (value) => -value.
Stages == {"logging", "validation", "negation"}

\* The middleware arrays of length at most n.
Pipelines(n) == UNION {[1..k -> Stages] : k \in 0..n}

\* validator: n => n >= 0
validator(v) == v >= 0

\* validationMiddleware: the value when the validator accepts it, prev
\* otherwise.
validationMiddleware_rejectsToZero(v, prev) == IF validator(v) THEN v ELSE 0

validationMiddleware(v, prev) == IF validator(v) THEN v ELSE prev

\* fn(processedValue, prev) for one function of the array.
Run_loggingKeepsPrevious(fn, v, prev) ==
    CASE fn = "logging" -> prev
      [] fn = "validation" -> validationMiddleware(v, prev)
      [] fn = "negation" -> 0 - v

Run(fn, v, prev) ==
    CASE fn = "logging" -> v
      [] fn = "validation" -> validationMiddleware(v, prev)
      [] fn = "negation" -> 0 - v

\* for (const fn of middleware) processedValue = fn(processedValue, prev),
\* from the k-th function on.
RECURSIVE Process_prevIsInput(_, _, _, _)
Process_prevIsInput(fns, k, processedValue, prev) ==
    IF k > Len(fns) THEN processedValue
    ELSE Process_prevIsInput(fns, k + 1, Run(fns[k], processedValue, prev),
                             processedValue)

RECURSIVE Process(_, _, _, _)
Process(fns, k, processedValue, prev) ==
    IF k > Len(fns) THEN processedValue
    ELSE Process(fns, k + 1, Run(fns[k], processedValue, prev), prev)

\* The functions passed to update.
UpdateFns == {"negate", "zero"}

\* updateFn(innerSignal())
ApplyFn(updateFn, v) == IF updateFn = "negate" THEN 0 - v ELSE 0

MwInit ==
    /\ HistConstructed
    /\ DebConstructed
    /\ StoreUnused
    /\ ResConstructed
    /\ ViewerConstructed
    /\ MirrorConstructed
    /\ PrevConstructed
    /\ SetConstructed
    /\ startValue \in Numbers
    /\ innerSignal = startValue
    /\ middleware \in Pipelines(MaxStages)
    /\ mwCall = [op |-> "none", arg |-> 0, prev |-> 0]
    /\ console = <<>>

\* console.log('Signal update:', {previous: prev, new: value, timestamp}) of
\* loggingMiddleware, for the functions from the k-th on; the timestamp is the
\* instant of the call and is left out.
RECURSIVE Printed(_, _, _, _)
Printed(fns, k, processedValue, prev) ==
    IF k > Len(fns) THEN <<>>
    ELSE (IF fns[k] = "logging"
          THEN <<[previous |-> prev, new |-> processedValue]>>
          ELSE <<>>)
         \o Printed(fns, k + 1, Run(fns[k], processedValue, prev), prev)

\* The write of wrapper.set(value), made for the call name.
Commit_rejectionIsFinal(name, v) ==
    /\ innerSignal' =
           IF \E k \in 1..Len(middleware) :
                  /\ middleware[k] = "validation"
                  /\ ~validator(Process(SubSeq(middleware, 1, k - 1), 1, v,
                                        innerSignal))
           THEN innerSignal
           ELSE Process(middleware, 1, v, innerSignal)
    /\ console' = Printed(middleware, 1, v, innerSignal)
    /\ mwCall' = [op |-> name, arg |-> v, prev |-> innerSignal]
    /\ UNCHANGED <<middleware, startValue, notMw>>

Commit(name, v) ==
    /\ innerSignal' = Process(middleware, 1, v, innerSignal)
    /\ console' = Printed(middleware, 1, v, innerSignal)
    /\ mwCall' = [op |-> name, arg |-> v, prev |-> innerSignal]
    /\ UNCHANGED <<middleware, startValue, notMw>>

\* wrapper.set
wrapperSet(v) == Commit("set", v)

\* wrapper.update: wrapper.set(updateFn(innerSignal()))
wrapperUpdate(updateFn) == Commit("update", ApplyFn(updateFn, innerSignal))

WrapperSetStep == \E v \in Numbers : wrapperSet(v)

WrapperUpdateStep == \E updateFn \in UpdateFns : wrapperUpdate(updateFn)

MwNext == WrapperSetStep \/ WrapperUpdateStep

MwSpec == MwInit /\ [][MwNext]_vars

\* ---------------------------------------------------- computedWithPrevious
\* The compute functions tried: the delta of the JSDoc example, and one that
\* also throws when the value went down.
ComputeFns == {"delta", "rising"}

\* computeFn(current, previous) throws.
Fails(fn, current, previous) ==
    fn = "rising" /\ previous # Undefined /\ current < previous

\* computeFn(current, previous) when it returns:
\* prev === undefined ? 0 : curr - prev
Result(current, previous) ==
    IF previous = Undefined THEN 0 ELSE current - previous

PrevInit ==
    /\ HistConstructed
    /\ DebConstructed
    /\ StoreUnused
    /\ ResConstructed
    /\ ViewerConstructed
    /\ MirrorConstructed
    /\ SetConstructed
    /\ MwConstructed
    /\ source \in Values
    /\ computeFn \in ComputeFns
    /\ previousValue = Undefined
    /\ memo = [kind |-> "unset", v |-> 0]
    /\ srcDirty = TRUE
    /\ fCall = [made |-> FALSE, current |-> 0, previous |-> 0]
    /\ rd = [seq |-> 0, called |-> FALSE, outcome |-> "none", v |-> 0]
    /\ srcChange = [from |-> 0, to |-> 0]

\* source.set(v): a change marks the computed signal for recomputation.
SourceSet(v) ==
    /\ source' = v
    /\ srcDirty' = (srcDirty \/ v # source)
    /\ srcChange' = IF v # source THEN [from |-> source, to |-> v] ELSE srcChange
    /\ UNCHANGED <<computeFn, previousValue, memo, fCall, rd, notPrev>>

\* The arguments of computeFn(current, previousValue), current = source().
Args_savedFirst == [made |-> TRUE, current |-> source, previous |-> source]

Args == [made |-> TRUE, current |-> source, previous |-> previousValue]

\* previousValue after the computation: `previousValue = current` is reached
\* only when computeFn returned.
Saved_beforeCall(args) == args.current

Saved(args) ==
    IF Fails(computeFn, args.current, args.previous) THEN previousValue
    ELSE args.current

\* What the computed signal keeps of a computation: the result, or the error
\* when the computation threw.
Memo(args) ==
    IF Fails(computeFn, args.current, args.previous)
    THEN [kind |-> "error", v |-> 0]
    ELSE [kind |-> "value", v |-> Result(args.current, args.previous)]

\* What a read hands to the reader: the kept value, or the kept error thrown.
Outcome(m, recomputed) ==
    [seq |-> 1 - rd.seq, called |-> recomputed,
     outcome |-> IF m.kind = "error" THEN "throws" ELSE "value", v |-> m.v]

\* A read of the computed signal: the computation runs when the source
\* changed since the last one (or never ran), otherwise the kept value or
\* error is handed out again.
Read ==
    /\ IF srcDirty
       THEN /\ fCall' = Args
            /\ memo' = Memo(Args)
            /\ previousValue' = Saved(Args)
            /\ rd' = Outcome(Memo(Args), TRUE)
       ELSE /\ rd' = Outcome(memo, FALSE)
            /\ UNCHANGED <<fCall, memo, previousValue>>
    /\ srcDirty' = FALSE
    /\ UNCHANGED <<source, computeFn, srcChange, notPrev>>

SourceSetStep == \E v \in Values : SourceSet(v)

PrevNext == SourceSetStep \/ Read

PrevSpec == PrevInit /\ [][PrevNext]_vars

\* ------------------------------------------- Celsius/Fahrenheit mirror
\* The numbers a user types into the two inputs.
CelsiusInputs == (0 - MaxTemp)..MaxTemp

FahrenheitInputs == (32 - MaxTemp)..(32 + MaxTemp)

MirrorInit ==
    /\ HistConstructed
    /\ DebConstructed
    /\ StoreUnused
    /\ ResConstructed
    /\ ViewerConstructed
    /\ SetConstructed
    /\ MwConstructed
    /\ PrevConstructed
    /\ MirrorConstructed

\* Math.round(c * 9/5 + 32) on an integer c: Math.round(x) is
\* floor(x + 1/2), and x + 1/2 = (18c + 325) / 10.
ToFahrenheit(c) == (18 * c + 325) \div 10

\* Math.round((f - 32) * 5/9) on an integer f: floor(x + 1/2) with
\* x + 1/2 = (10f - 311) / 18.
ToCelsius_noOffset(f) == (10 * f + 9) \div 18

ToCelsius(f) == (10 * f - 311) \div 18

\* The count of effect runs since the last write.
Ran == IF runs < RunCap THEN runs + 1 ELSE RunCap

\* (input)="celsius.set(+value)": the effect reading celsius is scheduled
\* when the value changed.
CelsiusSet(v) ==
    /\ celsius' = v
    /\ c2fDirty' = (c2fDirty \/ v # celsius)
    /\ runs' = 0
    /\ typed' = [field |-> "celsius", v |-> v]
    /\ UNCHANGED <<fahrenheit, updatingFromEffect, f2cDirty, notMirror>>

\* (input)="fahrenheit.set(+value)".
FahrenheitSet(v) ==
    /\ fahrenheit' = v
    /\ f2cDirty' = (f2cDirty \/ v # fahrenheit)
    /\ runs' = 0
    /\ typed' = [field |-> "fahrenheit", v |-> v]
    /\ UNCHANGED <<celsius, updatingFromEffect, c2fDirty, notMirror>>

\* One run of celsiusToFahrenheitEffect. The flag is raised and lowered
\* around the write inside the run, and no other effect runs in between.
CelsiusToFahrenheitEffect ==
    /\ c2fDirty
    /\ LET newF == ToFahrenheit(celsius)
           currentF == fahrenheit
       IN  IF currentF # newF /\ ~updatingFromEffect
           THEN /\ fahrenheit' = newF
                /\ f2cDirty' = TRUE
                /\ updatingFromEffect' = FALSE
           ELSE UNCHANGED <<fahrenheit, f2cDirty, updatingFromEffect>>
    /\ c2fDirty' = FALSE
    /\ runs' = Ran
    /\ UNCHANGED <<celsius, typed, notMirror>>

\* One run of fahrenheitToCelsiusEffect.
FahrenheitToCelsiusEffect ==
    /\ f2cDirty
    /\ LET newC == ToCelsius(fahrenheit)
           currentC == celsius
       IN  IF currentC # newC /\ ~updatingFromEffect
           THEN /\ celsius' = newC
                /\ c2fDirty' = TRUE
                /\ updatingFromEffect' = FALSE
           ELSE UNCHANGED <<celsius, c2fDirty, updatingFromEffect>>
    /\ f2cDirty' = FALSE
    /\ runs' = Ran
    /\ UNCHANGED <<fahrenheit, typed, notMirror>>

CelsiusSetStep == \E v \in CelsiusInputs : CelsiusSet(v)

FahrenheitSetStep == \E v \in FahrenheitInputs : FahrenheitSet(v)

MirrorNext ==
    \/ CelsiusSetStep
    \/ FahrenheitSetStep
    \/ CelsiusToFahrenheitEffect
    \/ FahrenheitToCelsiusEffect

MirrorSpec == MirrorInit /\ [][MirrorNext]_vars

\* ------------------------------------------- markdown viewer
ViewerInit ==
    /\ HistConstructed
    /\ DebConstructed
    /\ StoreUnused
    /\ ResConstructed
    /\ SetConstructed
    /\ MwConstructed
    /\ PrevConstructed
    /\ MirrorConstructed
    /\ ViewerConstructed

\* loadMarkdownFile(filename): the flags are reset and a GET is issued; its
\* subscription is never cancelled.
LoadMarkdownFile(filename) ==
    /\ gets < MaxGets
    /\ isLoading' = TRUE
    /\ loadError' = NoFile
    /\ pendingGets' = pendingGets \cup {[id |-> gets + 1, file |-> filename]}
    /\ gets' = gets + 1
    /\ overlapped' = (overlapped \/ pendingGets # {})
    /\ UNCHANGED <<htmlContent, tableOfContents, notViewer>>

\* ngOnInit(): the first load, of the file selected at construction.
NgOnInit ==
    /\ gets = 0
    /\ LoadMarkdownFile(currentFile)
    /\ UNCHANGED currentFile

\* loadMarkdown(event): the user picked another option of the select.
LoadMarkdown(filename) ==
    /\ gets > 0
    /\ filename # currentFile
    /\ currentFile' = filename
    /\ LoadMarkdownFile(filename)

\* retryLoad(): the button shown with the error message.
RetryLoad ==
    /\ gets > 0
    /\ loadError # NoFile
    /\ LoadMarkdownFile(currentFile)
    /\ UNCHANGED currentFile

\* The `next` callback of a GET: processMarkdown(markdown) renders the
\* response, whichever file it is of, and the loading flag is lowered.
ResponseNext(r) ==
    /\ r \in pendingGets
    /\ pendingGets' = pendingGets \ {r}
    /\ tableOfContents' = r.file
    /\ htmlContent' = r.file
    /\ isLoading' = FALSE
    /\ UNCHANGED <<currentFile, loadError, gets, overlapped, notViewer>>

\* The `error` callback of a GET.
ResponseError(r) ==
    /\ r \in pendingGets
    /\ pendingGets' = pendingGets \ {r}
    /\ loadError' = r.file
    /\ isLoading' = FALSE
    /\ UNCHANGED <<currentFile, htmlContent, tableOfContents, gets,
                   overlapped, notViewer>>

LoadMarkdownStep == \E filename \in Files : LoadMarkdown(filename)

ResponseNextStep == \E r \in pendingGets : ResponseNext(r)

ResponseErrorStep == \E r \in pendingGets : ResponseError(r)

ViewerNext ==
    \/ NgOnInit
    \/ LoadMarkdownStep
    \/ RetryLoad
    \/ ResponseNextStep
    \/ ResponseErrorStep

ViewerSpec == ViewerInit /\ [][ViewerNext]_vars

\* ------------------------------------------- history: ghost bookkeeping
Last(s) == s[Len(s)]

\* The step just taken was a call of the named operation.
Called(name) == Len(ops') = Len(ops) + 1 /\ Last(ops').op = name

\* s ends with t.
IsSuffix(t, s) ==
    /\ Len(t) <= Len(s)
    /\ t = SubSeq(s, Len(s) - Len(t) + 1, Len(s))

\* The number of setValue calls the call log starts with.
RECURSIVE LeadingWrites(_)
LeadingWrites(k) ==
    IF k < Len(ops) /\ ops[k + 1].op = "setValue" THEN LeadingWrites(k + 1) ELSE k

\* The calls from..to of the log are all calls of the named operation.
AllOps(from, to, name) == \A k \in from..to : ops[k].op = name

\* The index and value reached by the leading setValue calls.
WrittenIndex(n) == IF n = 0 THEN 0 ELSE ops[n].index
WrittenValue(n) == IF n = 0 THEN full[1] ELSE ops[n].value

\* The log is n writes followed by m undos (and nothing else), m >= 1.
AfterUndos(n, m) ==
    /\ n = LeadingWrites(0) /\ m >= 1
    /\ Len(ops) = n + m
    /\ AllOps(n + 1, n + m, "undo")

\* The log is n writes, m undos and m redos (and nothing else), m >= 1.
AfterUndosRedos(n, m) ==
    /\ n = LeadingWrites(0) /\ m >= 1
    /\ Len(ops) = n + 2 * m
    /\ AllOps(n + 1, n + m, "undo")
    /\ AllOps(n + m + 1, n + 2 * m, "redo")

\* ------------------------------------------------------ history: claims
\* C1: in every state reachable by setValue/undo/redo, for any capacity,
\* 0 <= index < history.length, so value() is an entry of the log.
C1_IndexInRange ==
    /\ 0 <= currentIndex
    /\ currentIndex < Len(history)
    /\ value \in Values
    /\ value = history[currentIndex + 1]

\* An undo was refused at index 0 after an entry had been evicted.
C1_Witness ==
    /\ ops # <<>>
    /\ Last(ops).op = "undo"
    /\ Len(ops) >= 2 /\ ops[Len(ops) - 1].index = 0
    /\ currentIndex = 0
    /\ Len(full) > Len(history)

\* The documented scenario: seeded A, setValue(B), setValue(C), undo, setValue(D).
C2_ScenarioRan ==
    /\ full[1] = 1
    /\ maxHistory >= 3
    /\ Len(ops) = 4
    /\ ops[1].op = "setValue" /\ ops[1].arg = 2
    /\ ops[2].op = "setValue" /\ ops[2].arg = 3
    /\ ops[3].op = "undo"
    /\ ops[4].op = "setValue" /\ ops[4].arg = 4

\* C2: setValue(v) at index i discards every entry after i before appending
\* v, so right after any setValue canRedo() is false; the A/B/C/undo/D
\* scenario ends with value D, canRedo false and history [A, B, D].
C2_BranchTruncation ==
    [][ /\ Called("setValue") =>
            LET kept == SubSeq(history, 1, currentIndex + 1)
                appended == Append(kept, Last(ops').arg)
            IN  /\ history' \in {appended, Tail(appended)}
                /\ ~canRedo'
                /\ value' = Last(ops').arg
        /\ C2_ScenarioRan' =>
            /\ ops'[3].value = 2
            /\ value' = 4
            /\ ~canRedo'
            /\ history' = <<1, 2, 4>>
      ]_vars

\* A setValue made after an undo dropped a redo entry.
C2_Witness ==
    /\ C2_ScenarioRan
    /\ history = <<1, 2, 4>>

\* C3 as stated: for every maxHistory the log never exceeds maxHistory and is
\* a suffix of the log kept without eviction.
C3_Original ==
    /\ Len(history) <= maxHistory
    /\ IsSuffix(history, full)

\* C3 amended: for every maxHistory >= 1 the log never exceeds maxHistory, and
\* for every maxHistory the log is a suffix of the log kept without eviction
\* (the oldest entries are the ones evicted).
C3_CapacityBound ==
    /\ maxHistory >= 1 => Len(history) <= maxHistory
    /\ maxHistory < 1 => Len(history) = 1
    /\ IsSuffix(history, full)

\* The cap was hit at least twice and the log is full.
C3_Witness ==
    /\ maxHistory >= 2
    /\ Len(history) = maxHistory
    /\ Len(full) >= Len(history) + 2

\* The call log is n setValue calls and nothing else.
OnlyWrites(n) == Len(ops) = n /\ AllOps(1, n, "setValue")

\* C4 as stated: after n <= maxHistory consecutive setValue calls the log has
\* n + 1 entries.
C4_Original ==
    \A n \in 0..MaxOps :
        (OnlyWrites(n) /\ n <= maxHistory) => Len(history) = n + 1

\* C4 amended: after n < maxHistory consecutive setValue calls on a new log
\* the log has n + 1 entries (the initial value and the n written values).
C4_LengthAfterWrites ==
    \A n \in 0..MaxOps :
        (OnlyWrites(n) /\ n < maxHistory) =>
            /\ Len(history) = n + 1
            /\ \A k \in 1..n : history[k + 1] = ops[k].arg
            /\ history[1] = full[1]

\* Two writes below the capacity.
C4_Witness ==
    /\ OnlyWrites(2)
    /\ 2 < maxHistory
    /\ Len(history) = 3

\* C5 as stated: after n writes, m <= n undos then m redos return to the same
\* index and value, and after the m undos value() is the entry at index - m.
C5_Original ==
    \A n \in 1..MaxOps : \A m \in 1..n :
        /\ AfterUndos(n, m) => value = At(history, WrittenIndex(n) - m)
        /\ AfterUndosRedos(n, m) =>
              /\ currentIndex = WrittenIndex(n)
              /\ value = WrittenValue(n)

\* C5 amended: after n writes, m <= n undos then m redos return to the same
\* index and value; after the m undos value() is the entry at index - m when
\* m is at most the index the writes reached (always so when nothing was
\* evicted), and the entry at 0 otherwise.
C5_UndoRedoRoundTrip ==
    \A n \in 1..MaxOps : \A m \in 1..n :
        /\ (AfterUndos(n, m) /\ m <= WrittenIndex(n)) =>
              value = history[WrittenIndex(n) - m + 1]
        /\ (AfterUndos(n, m) /\ m > WrittenIndex(n)) =>
              value = history[1]
        /\ AfterUndosRedos(n, m) =>
              /\ currentIndex = WrittenIndex(n)
              /\ value = WrittenValue(n)

\* Two writes, an undo and a redo on a log that kept all three entries.
C5_Witness ==
    /\ maxHistory >= 3
    /\ AfterUndosRedos(2, 1)
    /\ ops[3].index = 1
    /\ ops[3].value = ops[1].arg
    /\ currentIndex = 2

\* C6: undo moves index i to i-1 when i > 0 and changes nothing at 0; redo
\* moves i to i+1 when i < length-1 and changes nothing at the end; neither
\* changes the log.
C6_UndoRedoTransitions ==
    [][ /\ Called("undo") =>
            /\ currentIndex > 0 => currentIndex' = currentIndex - 1
            /\ currentIndex = 0 => currentIndex' = currentIndex
            /\ history' = history
        /\ Called("redo") =>
            /\ currentIndex < Len(history) - 1 => currentIndex' = currentIndex + 1
            /\ currentIndex = Len(history) - 1 => currentIndex' = currentIndex
            /\ history' = history
      ]_vars

\* Both boundaries were hit: a refused undo at 0 and a refused redo at the end.
C6_Witness ==
    /\ Len(ops) >= 4
    /\ \E i, j \in 2..Len(ops) :
          /\ ops[i].op = "undo" /\ ops[i - 1].index = 0 /\ ops[i].index = 0
          /\ ops[j].op = "redo" /\ ops[j - 1].index = ops[j - 1].len - 1
          /\ ops[j].index = ops[j - 1].index
          /\ ops[j].len >= 2

\* ---------------------------------------------------- debounce: claims
\* The callbacks that ran in this step.
Fired == IF fires' # fires THEN timers \ timers' ELSE {}

\* C7 as stated: within a burst of writes less than Delay apart output
\* changes at most once, to the last written value, no earlier than Delay
\* after the last write.
C7_Original ==
    [][ output' # output =>
            /\ burstW = 0
            /\ output' = input
            /\ now >= lastWrite + Delay
      ]_vars

\* C7 amended: within a burst of writes that each change input and are less
\* than Delay apart, output changes at most once, to the last written value,
\* no earlier than Delay after the last such write.
C7_BurstOfChanges ==
    [][ output' # output =>
            /\ burstC = 0
            /\ output' = input
            /\ lastChange >= 0
            /\ now >= lastChange + Delay
      ]_vars

\* A burst of two changing writes was relayed once.
C7_Witness ==
    /\ burstLen = 2
    /\ burstC = 1
    /\ output = input
    /\ output # 1
    /\ nextTimerId >= 4

\* C8 as stated: a write made before Delay has elapsed cancels the callback
\* scheduled before it, which never runs; a new one is scheduled from the new
\* write; at most one callback is pending.
C8_Original ==
    [][ /\ Cardinality(timers') <= 1
        /\ again =>
              \A t \in Fired : t.value = input /\ t.due >= lastWrite + Delay
        /\ (again' /\ ~effectDirty' /\ ~destroyed') =>
              \A t \in timers' : t.value = input' /\ t.due >= lastWrite' + Delay
      ]_vars

\* C8 amended: a write that changes input, however soon after the previous
\* write, cancels the callback scheduled before it, which never runs (output
\* never takes a superseded value); a new one is scheduled, at the effect's
\* next run, Delay after that run; at most one callback is pending at any time.
C8_SupersedeCancels ==
    [][ /\ Cardinality(timers') <= 1
        /\ \A t \in Fired : t.value = input /\ t.due >= lastChange + Delay
        /\ (~effectDirty' /\ ~destroyed') =>
              \A t \in timers' : t.value = input' /\ t.due >= lastChange' + Delay
      ]_vars

\* Two callbacks were superseded and the third, for the last write, is pending.
C8_Witness ==
    /\ nextTimerId = 4
    /\ fires = 0
    /\ burstLen = 2
    /\ ~effectDirty
    /\ \E t \in timers : t.id = 3 /\ t.value = input /\ t.value # output

\* C9: once the owner is disposed no callback is pending and none runs, so
\* output never changes after disposal.
C9_TeardownCancels ==
    [][ /\ destroyed' => timers' = {}
        /\ destroyed => (output' = output /\ fires' = fires)
      ]_vars

\* A callback for a value output never took was cancelled by the disposal,
\* and its instant has passed.
C9_Witness ==
    /\ destroyed
    /\ \E t \in cancelled : t.value # output /\ now > t.due

\* C10 as stated: a write of the value output holds restarts the timer, and
\* the callback then leaves output as it is.
C10_Original ==
    [][ /\ (lastSet' \in {"changedToOutput", "sameAsOutput"}
                /\ ~effectDirty' /\ ~destroyed') =>
              \E t \in timers' :
                  /\ timers' = {t}
                  /\ t.value = output'
                  /\ t.due >= lastWrite' + Delay
        /\ (fires' # fires /\ lastSet \in {"changedToOutput", "sameAsOutput"}) =>
              output' = output
      ]_vars

\* C10 amended: a write that changes input to the value output holds
\* restarts the timer at the effect's next run, and the callback then leaves
\* output as it is.
C10_EqualValueWrite ==
    [][ /\ (lastSet' = "changedToOutput" /\ ~effectDirty' /\ ~destroyed') =>
              \E t \in timers' :
                  /\ timers' = {t}
                  /\ t.value = output'
                  /\ t.due >= lastWrite' + Delay
        /\ (fires' # fires /\ lastSet = "changedToOutput") => output' = output
      ]_vars

\* Input went back to a relayed, non-initial value and the restarted callback ran.
C10_Witness ==
    /\ lastSet = "relayedToOutput"
    /\ output # 1
    /\ input = output
    /\ fires >= 2

\* ------------------------------------------------------- store: claims
\* The store was just constructed after a set(v) on the earlier instance.
ReloadedAfterSet ==
    /\ lastCall.op = "construct"
    /\ lastCall.prevOp = "set"

\* v comes back from JSON.parse(JSON.stringify(v)) as itself.
RoundTrips(v) == v \in {"v1", "v2", "vNull"}

\* C11 as stated: a store constructed after set(v) returned on an earlier
\* store of the same key has state() = v.
C11_Original ==
    ReloadedAfterSet => (storeStatus = "live" /\ state = lastCall.prevArg)

\* C11 amended: a store constructed after set(v) returned on an earlier store
\* of the same key, and after the auto-save effect ran for it, has
\* state() = v when v survives the JSON encoding.
C11_RoundTrip ==
    (ReloadedAfterSet /\ lastCall.prevFlushed /\ RoundTrips(lastCall.prevArg)) =>
        (storeStatus = "live" /\ state = lastCall.prevArg)

\* A reload brought back a value that was neither stored nor the default.
C11_Witness ==
    /\ ReloadedAfterSet
    /\ lastCall.prevFlushed
    /\ state = "v2"
    /\ initialValue = "v1"
    /\ instances = 2

\* The last call was a write through set, update or reset.
Wrote == lastCall.op \in {"set", "update", "reset"}

\* C12 as stated: right after a write whose value can be serialized the item
\* under key is the serialization of state().
C12_Original ==
    (storeStatus = "live" /\ Wrote /\ JSONstringify(state) # Throws) =>
        storage = setItem(JSONstringify(state))

\* C12 amended: after a write whose value can be serialized, once the
\* auto-save effect has run, the item under key is the serialization of
\* state(); between the return of the write and that run it is the old item.
C12_Agreement ==
    (storeStatus = "live" /\ ~persistDirty /\ JSONstringify(state) # Throws) =>
        storage = setItem(JSONstringify(state))

\* An update was saved over a different item.
C12_Witness ==
    /\ storeStatus = "live"
    /\ lastCall.op = "update"
    /\ ~persistDirty
    /\ state = "v2"
    /\ storage = "2"
    /\ seen = "1"

\* JSON.parse accepts the item.
WellFormed(item) == item \in {"1", "2", "null"}

\* C13: a constructed store starts from the parsed item when a well-formed
\* item is stored under key, and from the default when none is stored.
C13_Hydration ==
    storeStatus = "live" =>
        /\ WellFormed(seen) => hydrated = JSONparse(seen)
        /\ seen = Absent => hydrated = initialValue

\* A stored item superseded a different default.
C13_Witness ==
    /\ storeStatus = "live"
    /\ seen = "2"
    /\ initialValue = "v1"
    /\ hydrated = "v2"

\* C14: construction over an item that cannot be parsed does not fail and
\* starts from the default.
C14_MalformedFallsBack ==
    (instances > 0 /\ seen # Absent /\ ~WellFormed(seen)) =>
        (storeStatus = "live" /\ hydrated = initialValue)

\* C15: after reset() state() is the default passed to the constructor, not
\* the value read from the store.
C15_ResetToDefault ==
    (storeStatus = "live" /\ lastCall.op = "reset") => state = initialValue

\* A reset on a store that started from a stored value other than the default.
C15_Witness ==
    /\ storeStatus = "live"
    /\ lastCall.op = "reset"
    /\ hydrated = "v2"
    /\ initialValue = "v1"
    /\ state = "v1"

\* The value cannot be serialized: JSON.stringify throws on it.
Unserializable(v) == v = "vCyclic"

\* C16 as stated: a set/update whose value cannot be serialized raises the
\* error to its caller and leaves the item under key as it was.
C16_Original ==
    [][ (storeStatus' = "live" /\ lastCall'.op \in {"set", "update"}
            /\ Unserializable(state')) =>
            /\ errorAt' = "caller"
            /\ storage' = storage
      ]_vars

\* The auto-save effect ran in this step.
Persisted == persistDirty /\ ~persistDirty' /\ instances' = instances

\* C16 amended: a set/update whose value cannot be serialized returns
\* normally; the error is raised later in the auto-save effect, which leaves
\* the item under key as it was, and state() keeps the new value.
C16_EncodeFailure ==
    [][ /\ (lastCall' # lastCall /\ lastCall'.op \in {"set", "update"}) =>
              /\ errorAt' = "none"
              /\ storage' = storage
              /\ state' = lastCall'.arg
        /\ (Persisted /\ Unserializable(state)) =>
              /\ errorAt' = "effect"
              /\ storage' = storage
              /\ state' = state
      ]_vars

\* The effect failed on a value set over a saved one.
C16_Witness ==
    /\ storeStatus = "live"
    /\ lastCall.op = "set"
    /\ state = "vCyclic"
    /\ errorAt = "effect"
    /\ storage = "2"
    /\ seen = Absent

\* ------------------------------------------------- createResource: claims
\* C17: after construction and until refresh() is first called, the state
\* stays {data: null, loading: false, error: null} and fetchFn is never
\* invoked.
C17_InitialState ==
    refreshTrigger = 0 =>
        /\ data = Null
        /\ loading = FALSE
        /\ error = Null
        /\ loads = 0

\* A step in which the promise of a call settles although a later call of
\* fetchFn has been made.
StaleCompletion ==
    /\ inflight' # inflight
    /\ inflight' \subseteq inflight
    /\ \E n \in inflight \ inflight' : n < loads'

\* The resource is at rest: no run of the effect is scheduled and no promise
\* is pending.
Settled == loads > 0 /\ ~resDirty /\ inflight = {}

\* C18: with overlapping loads the result is the one of the most recently
\* started load: the completion of an earlier-started load that arrives
\* later changes neither data, error nor loading, and at rest data or error
\* is the outcome of the last call of fetchFn.
C18_LatestWins ==
    /\ [](Settled => (~loading /\ (data = loads \/ error = loads)))
    /\ [][StaleCompletion => UNCHANGED <<data, error, loading>>]_vars

\* C19: loading() is true exactly when a load is in flight, overlapping
\* refreshes included.
C19_LoadingFlag == loading <=> (inflight # {})

\* C20 as stated: at most one of data/error is non-null after a completed
\* load, and both are null whenever loading is true and before the first load.
C20_Original ==
    /\ (loading \/ loads = 0) => (data = Null /\ error = Null)
    /\ (loads > 0 /\ ~loading) => (data = Null \/ error = Null)

\* C20: error is null whenever loading is true, data and error are both null
\* before the first load starts, and data, once loaded, is kept: it is not
\* cleared when a later load starts or fails.
C20_ResultExclusivity ==
    /\ [](loading => error = Null)
    /\ [](loads = 0 => (data = Null /\ error = Null))
    /\ [][data # Null => data' # Null]_vars

\* A reload is in flight after a failed load that followed a successful one:
\* the error has been cleared, the earlier data is still there.
C20_Witness ==
    /\ loading
    /\ loads >= 3
    /\ inflight = {loads}
    /\ data = 1
    /\ error = Null

\* C21: when every promise of fetchFn settles, loading does not stay true:
\* each loading period ends, and after the last refresh() the resource comes
\* to rest with loading false, which only a scheduled run of the effect (the
\* one of construction or of a refresh()) can end.
C21_Liveness ==
    /\ loading ~> ~loading
    /\ <>[](~loading /\ inflight = {} /\ ~resDirty)
    /\ [][(~loading /\ loading') => (resDirty /\ ~resDirty')]_vars

\* The resource is at rest after overlapping loads.
C21_Witness ==
    /\ Settled
    /\ ~loading
    /\ refreshTrigger = MaxRefresh
    /\ loads = MaxRefresh + 1
    /\ producer.call < loads

\* C22 as stated: once the resource is at rest after k calls of refresh(),
\* fetchFn has been called k times.
C22_Original == Settled => loads = refreshTrigger

\* C22: each run of the effect calls fetchFn once, and the effect runs once
\* for the construction and once for each batch of refresh() calls made before
\* it runs: after k calls of refresh() fetchFn has been called at most k + 1
\* times, at least once when no run is scheduled, and loading turns true only
\* in a step that calls fetchFn.
C22_OneLoadPerRun ==
    /\ [](loads <= refreshTrigger + 1)
    /\ [](~resDirty => loads >= 1)
    /\ [][loads' # loads => (loads' = loads + 1 /\ resDirty /\ ~resDirty')]_vars
    /\ [][(~loading /\ loading') => loads' = loads + 1]_vars

\* Two refresh() calls made before the effect ran were served by one load.
C22_Witness ==
    /\ Settled
    /\ refreshTrigger = 3
    /\ loads = 2
    /\ data = 2

\* fetchFn threw, or its promise was rejected, in this step.
ProducerFailed ==
    /\ producer' # producer
    /\ producer'.did \in {"rejected", "threw"}

\* C23: when fetchFn throws or its promise is rejected, the failure is stored
\* in error and loading is set to false; refresh() only bumps the trigger, it
\* neither calls fetchFn nor touches the state, so no failure reaches its
\* caller.
C23_ProducerFailure ==
    /\ [][ProducerFailed => (error' = producer'.call /\ ~loading')]_vars
    /\ [][refreshTrigger' # refreshTrigger =>
            UNCHANGED <<data, loading, error, loads, inflight, producer>>]_vars

\* A reload was rejected after a successful load: the error is stored next to
\* the earlier data.
C23_Witness ==
    /\ producer = [call |-> 2, did |-> "rejected"]
    /\ error = 2
    /\ data = 1
    /\ ~loading
    /\ refreshTrigger >= 1

\* ------------------------------------------------ createSignalSet: claims
\* No two entries of arr have the same key.
UniqueKeys(arr) ==
    \A j, k \in 1..Len(arr) : keyFn(arr[j]) = keyFn(arr[k]) => j = k

\* C24: whatever initial array the set was created with, after any sequence
\* of add/toggle/remove/clear calls items() never holds two items with the
\* same key.
C24_Uniqueness == setCall.op # "none" => UniqueKeys(items)

\* The entries of arr whose key is not the one of item, in their order.
RECURSIVE KeepOthers(_, _)
KeepOthers(arr, item) ==
    IF arr = <<>> THEN <<>>
    ELSE LET front == KeepOthers(SubSeq(arr, 1, Len(arr) - 1), item)
             end == arr[Len(arr)]
         IN  IF keyFn(end) = keyFn(item) THEN front ELSE front \o <<end>>

\* Some entry of arr has the key of item.
Present(arr, item) == keyFn(item) \in {keyFn(arr[k]) : k \in 1..Len(arr)}

\* C25 as stated: after toggle(x) twice in a row items() is the sequence it
\* was before the two calls.
C25_Original == pairStart.on => items = pairStart.before

\* C25: after toggle(x) twice in a row items() is the sequence it was before
\* when no item had the key of x; when one had, the items of that key are
\* gone and x is the last item, the others keeping their order.
C25_DoubleToggle ==
    pairStart.on =>
        IF Present(pairStart.before, setCall.item)
        THEN items = KeepOthers(pairStart.before, setCall.item)
                        \o <<setCall.item>>
        ELSE items = pairStart.before

\* Two toggles of the first item moved it to the end.
C25_Witness ==
    /\ pairStart.on
    /\ pairStart.before = <<1, 3>>
    /\ setCall.item = 1
    /\ items = <<3, 1>>

\* The step is a call of the operation name.
SetCallOf(name) == setCall' # setCall /\ setCall'.op = name

\* C26: add(item) leaves items() as it is when an item with the same key is
\* present, and otherwise appends item after the existing items.
C26_Add ==
    [][SetCallOf("add") =>
          IF Present(items, setCall'.item)
          THEN items' = items
          ELSE items' = items \o <<setCall'.item>>
      ]_vars

\* An add of another item with the key of the first one changed nothing.
C26_Witness ==
    /\ setCall.op = "add"
    /\ setCall.item = 2
    /\ setCall.before = <<1, 3>>
    /\ items = <<1, 3>>

\* C27: remove(item) deletes every item with the key of item and keeps the
\* others in their order; with no such item the contents are unchanged.
C27_Remove ==
    [][SetCallOf("remove") =>
          /\ items' = KeepOthers(items, setCall'.item)
          /\ ~Present(items, setCall'.item) => items' = items
      ]_vars

\* A remove took out both items of one key.
C27_Witness ==
    /\ setCall.op = "remove"
    /\ setCall.item = 2
    /\ setCall.before = <<1, 2, 3>>
    /\ items = <<3>>

RECURSIVE Fold(_, _, _, _)
Fold(fns, n, v, prev) ==
    IF n = 0 THEN v
    ELSE Run(fns[n], Fold(fns, n - 1, v, prev), prev)

\* C29: the value committed by set(v), and by update(fn) with v = fn(current),
\* is the left-to-right fold of the middleware array over v, every function
\* being given the value the cell had before the write; with an empty array
\* it is v.
C29_Fold ==
    [][mwCall' # mwCall =>
          /\ mwCall'.prev = innerSignal
          /\ innerSignal' = Fold(middleware, Len(middleware), mwCall'.arg,
                                 innerSignal)
          /\ middleware = <<>> => innerSignal' = mwCall'.arg
      ]_vars

\* A negated value was rejected by a validator placed after the negation:
\* the cell kept the value it had before the write.
C29_Witness ==
    /\ middleware = <<"negation", "validation">>
    /\ mwCall = [op |-> "set", arg |-> 5, prev |-> 10]
    /\ innerSignal = 10

\* The pipeline is a single validator and the initial value passes it.
ValidatorOnly == middleware = <<"validation">> /\ validator(startValue)

\* C30: with a single validator and an initial value that passes it, a
\* rejected set leaves the cell at its previous value, an accepted one
\* commits the proposed value, and the cell never holds a rejected value.
C30_Validation ==
    /\ [](ValidatorOnly => validator(innerSignal))
    /\ [][(ValidatorOnly /\ mwCall' # mwCall) =>
            innerSignal' = IF validator(mwCall'.arg) THEN mwCall'.arg
                           ELSE innerSignal
         ]_vars

\* The cell started at 5, was moved to 10, and set(-1) left it there.
C30_Witness ==
    /\ ValidatorOnly
    /\ startValue = 5
    /\ mwCall = [op |-> "set", arg |-> -1, prev |-> 10]
    /\ innerSignal = 10

\* The k-th function of the array is a validator that rejected the value it
\* was handed in the write of this step.
RejectedAt(k) ==
    /\ middleware[k] = "validation"
    /\ ~validator(Fold(middleware, k - 1, mwCall'.arg, innerSignal))

\* The functions of the array after the k-th.
After(k) == SubSeq(middleware, k + 1, Len(middleware))

\* C31: the fold continues past a validator that rejects: the functions after
\* it are run on the previous value it returned, so what is committed is
\* their fold over the previous value, which need not be the previous value.
C31_OrderSensitivity ==
    [][mwCall' # mwCall =>
          \A k \in 1..Len(middleware) :
              RejectedAt(k) =>
                  innerSignal' = Fold(After(k), Len(After(k)), innerSignal,
                                      innerSignal)
      ]_vars

\* A validator rejected -1 and the negation placed after it committed the
\* opposite of the previous value.
C31_Witness ==
    /\ middleware = <<"validation", "negation">>
    /\ mwCall = [op |-> "set", arg |-> -1, prev |-> 5]
    /\ innerSignal = -5

\* The array without its logging functions.
Silent(fns) == SelectSeq(fns, LAMBDA fn : fn # "logging")

\* The number of logging functions in the array.
Loggers(fns) == Len(fns) - Len(Silent(fns))

\* C32: loggingMiddleware returns its input: every write commits the value
\* the array without its logging functions commits, and each logging
\* function prints one entry with the previous value and the value it was
\* handed.
C32_LoggingTransparent ==
    [][mwCall' # mwCall =>
          /\ innerSignal' = Fold(Silent(middleware), Len(Silent(middleware)),
                                 mwCall'.arg, innerSignal)
          /\ Len(console') = Loggers(middleware)
          /\ \A k \in 1..Len(middleware) :
                 middleware[k] = "logging" =>
                     \E j \in 1..Len(console') :
                         console'[j] =
                             [previous |-> innerSignal,
                              new |-> Fold(middleware, k - 1, mwCall'.arg,
                                           innerSignal)]
      ]_vars

\* A logging function placed after a negation printed the negated value and
\* the write committed it.
C32_Witness ==
    /\ middleware = <<"negation", "logging">>
    /\ mwCall = [op |-> "set", arg |-> 5, prev |-> 1]
    /\ console = <<[previous |-> 1, new |-> -5]>>
    /\ innerSignal = -5

\* ------------------------------------------- computedWithPrevious: claims
\* The computed signal was read in this step, and the computation ran.
Recomputed == rd'.seq # rd.seq /\ rd'.called

\* C33: each recomputation calls computeFn(current, previous) with the
\* current value of the source and the value the source had at the prior
\* recomputation that returned, undefined at the first one; the one
\* remembered value is changed only by a recomputation in which computeFn
\* returned, to the current value.
C33_PreviousValue ==
    /\ [](~fCall.made => previousValue = Undefined)
    /\ [][Recomputed =>
            /\ fCall'.current = source
            /\ fCall'.previous = previousValue
            /\ rd'.outcome = "value" =>
                   (rd'.v = Result(source, previousValue)
                    /\ previousValue' = source)
         ]_vars
    /\ [][previousValue' # previousValue =>
            (Recomputed /\ rd'.outcome = "value")]_vars

\* A second recomputation was handed the value read at the first one, not
\* the value the source had in between.
C33_Witness ==
    /\ rd.called
    /\ fCall = [made |-> TRUE, current |-> 4, previous |-> 1]
    /\ srcChange = [from |-> 2, to |-> 4]
    /\ previousValue = 4
    /\ rd.v = 3

\* C34: after the source is changed from a to b, a read of the computed
\* signal yields computeFn(b, a), a being the value just before b.
C34_ChangeTracking ==
    (computeFn = "delta" /\ srcChange.from # 0 /\ ~srcDirty
        /\ rd.outcome # "none") =>
        (rd.outcome = "value"
         /\ rd.v = Result(srcChange.to, srcChange.from))

\* C35 as stated: a read made again after a read in which computeFn threw
\* calls computeFn with the same current and previous values.
C35_Original ==
    [][(rd.outcome = "throws" /\ rd'.seq # rd.seq /\ ~srcDirty) =>
          (rd'.called /\ fCall'.current = fCall.current
           /\ fCall'.previous = fCall.previous)
      ]_vars

\* C35: when computeFn throws, the read throws and the remembered value is
\* left as it was; a read made again with the source unchanged throws again
\* without calling computeFn, and once the source has changed the next read
\* calls computeFn with the new current value and the same previous value.
C35_Failure ==
    [][rd'.seq # rd.seq =>
          /\ (rd'.called /\ Fails(computeFn, source, previousValue)) =>
                 (rd'.outcome = "throws" /\ previousValue' = previousValue)
          /\ (rd.outcome = "throws" /\ ~srcDirty) =>
                 (rd'.outcome = "throws" /\ ~rd'.called /\ fCall' = fCall
                  /\ previousValue' = previousValue)
          /\ (rd.outcome = "throws" /\ srcDirty) =>
                 (rd'.called /\ fCall'.current = source
                  /\ fCall'.previous = fCall.previous)
      ]_vars

\* A read threw twice in a row, and the remembered value is still the one of
\* the last computation that returned.
C35_Witness ==
    /\ computeFn = "rising"
    /\ rd = [seq |-> 1, called |-> FALSE, outcome |-> "throws", v |-> 0]
    /\ fCall = [made |-> TRUE, current |-> 1, previous |-> 3]
    /\ previousValue = 3
    /\ source = 1

\* ------------------------------------------- createHistorySignal: eviction
\* C36: when the log cut at the index and extended with v is longer than
\* maxHistory, setValue(v) drops the oldest entry and leaves the index where
\* it was; otherwise it moves the index forward by one. Either way value() is
\* v right after the call and the index is the one of the last entry.
C36_EvictionStep ==
    [][Called("setValue") =>
          LET v == Last(ops').arg
              grown == Append(SubSeq(history, 1, currentIndex + 1), v)
          IN  /\ IF Len(grown) > maxHistory
                 THEN /\ currentIndex' = currentIndex
                      /\ history' = Tail(grown)
                 ELSE /\ currentIndex' = currentIndex + 1
                      /\ history' = grown
              /\ At(history', currentIndex') = v
              /\ currentIndex' = Len(history') - 1
      ]_vars

\* A write on a full log of two entries evicted the oldest one and left the
\* index on the last entry.
C36_Witness ==
    /\ maxHistory = 2
    /\ Len(ops) >= 2
    /\ Last(ops).op = "setValue"
    /\ ops[Len(ops) - 1].op = "setValue"
    /\ ops[Len(ops) - 1].index = 1
    /\ currentIndex = 1
    /\ Len(history) = 2
    /\ Len(full) = 3
    /\ history[2] = Last(ops).arg

\* ------------------------------------------ createPersistentStore: lifetime
\* The item under key is what the auto-save effect writes for state().
InSync ==
    /\ ~persistDirty
    /\ Unserializable(state) \/ storage = setItem(JSONstringify(state))

\* C37: the auto-save effect is created once, at construction, and every
\* write that changes state() schedules it again, so whatever set, update
\* and reset calls are made the item under key is again and again, and for
\* good once the calls stop, the serialization of the latest state().
C37_PersistenceLifetime ==
    /\ []<>(storeStatus # "live" \/ InSync)
    /\ [][(Wrote' /\ storeStatus' = "live" /\ state' # state) =>
            persistDirty']_vars

\* A reset was saved over the item written for an earlier value.
C37_Witness ==
    /\ storeStatus = "live"
    /\ lastCall.op = "reset"
    /\ InSync
    /\ instances = 1
    /\ seen = "2"
    /\ initialValue = "v1"
    /\ storage = "1"

\* ------------------------------------- createDebouncedSignal: propagation
\* A callback ran in this step and gave output the value of input.
Relayed == fires' # fires /\ output' = input /\ output' # output

\* C38 as stated: output takes the last value written to input no earlier
\* than Delay after the last write.
C38_Original == [][Relayed => now >= lastWrite + Delay]_vars

\* The effect has run for the value of input and its callback is pending,
\* due within the instants explored.
Scheduled ==
    /\ ~destroyed
    /\ ~effectDirty
    /\ \E t \in timers : t.value = input /\ t.due <= MaxTime

\* C38: a write changes input at once and leaves output alone; while the
\* owner lives a scheduled effect runs, and once it has run for the value of
\* input, output takes that value unless input is changed again (which
\* schedules the effect again) or the owner is destroyed; it takes it no
\* earlier than Delay after the last write that changed input.
C38_EventualPropagation ==
    /\ [][input' # input =>
            (output' = output /\ (destroyed \/ effectDirty'))]_vars
    /\ [](~destroyed /\ ~effectDirty /\ output # input =>
            \E t \in timers : t.value = input /\ t.id = timeoutId)
    /\ (effectDirty /\ ~destroyed /\ nextTimerId <= MaxTimers)
           ~> (~effectDirty \/ destroyed)
    /\ Scheduled ~> (output = input \/ effectDirty \/ destroyed)
    /\ [][Relayed => now >= lastChange + Delay]_vars

\* Output took a value written twice, less than Delay after the second write.
C38_Witness ==
    /\ ~destroyed
    /\ output = input
    /\ output # 1
    /\ fires >= 1
    /\ timers = {}
    /\ lastWrite > lastChange
    /\ now < lastWrite + Delay

\* ------------------------------------------- claims on the temperature mirror
\* Neither effect is scheduled.
MirrorSettled == ~c2fDirty /\ ~f2cDirty

\* celsius = Math.round((fahrenheit - 32) * 5/9), stated without the
\* rounding: celsius - 1/2 <= (fahrenheit - 32) * 5/9 < celsius + 1/2.
Mirrored ==
    /\ 18 * celsius - 9 <= 10 * (fahrenheit - 32)
    /\ 10 * (fahrenheit - 32) < 18 * celsius + 9

AllCompleted == gets > 0 /\ pendingGets = {} /\ loadError = NoFile

\* The content on display is the one of the selected file.
ContentIsCurrent ==
    /\ htmlContent = currentFile
    /\ tableOfContents = currentFile

\* C40: when a load was started while an earlier one was in flight, then
\* whatever the order of the responses, once all have completed the content
\* shown is the one of currentFile, and isLoading is false only when no
\* request is pending.
C40_OverlappingLoads ==
    overlapped =>
        /\ AllCompleted => ContentIsCurrent
        /\ ~isLoading => pendingGets = {}

\* With no overlap the viewer shows the selected file and the flag is exact.
NoOverlapIsExact ==
    ~overlapped =>
        /\ AllCompleted => ContentIsCurrent
        /\ ~isLoading => pendingGets = {}

====
